---- MODULE Spec2Model ----
(***************************************************************************)
(* A model of network-scanner.py: the interactive loop of main(), the      *)
(* scan coordinator NetworkScanner.scan_network with its thread pool, the  *)
(* host prober NetworkScanner.scan_host and the table rendering.           *)
(*                                                                         *)
(* Text is modelled as a sequence of one-character strings, so that        *)
(* str(ip), split('.') and int() are real conversions.  The network is the *)
(* environment: each probe of a host sees one of the host configurations   *)
(* of Configs.                                                             *)
(*                                                                         *)
(* Spec is the session; SpecFault adds exceptions inside scan_host;        *)
(* SpecLive adds fair scheduling; SpecEnum is the host enumeration alone,  *)
(* SpecProbe one scan_host call against every host of RawHosts, SpecPool   *)
(* the pool on a range with more addresses than threads.                   *)
(***************************************************************************)
EXTENDS Integers, Sequences, FiniteSets, TLC

VARIABLES
    pc,             \* position of the main thread
    entered,        \* the two texts read by the prompts of main()
    hosts,          \* scan_network: list(network.hosts()), as integers
    next_submit,    \* executor.map: index of the next host to submit
    work_queue,     \* ThreadPoolExecutor._work_queue (task indices)
    worker,         \* per pool thread: the task it runs, 0 when waiting
    idle_semaphore, \* ThreadPoolExecutor._idle_semaphore
    tpc,            \* per task: position inside scan_host
    verified,       \* per task: outcome of the first verify_host call
    host_info,      \* per task: the local host_info of scan_host
    active_hosts,   \* NetworkScanner.active_hosts
    base,           \* history: len(active_hosts) when the scan started
    screen,         \* what the console shows
    scans,          \* number of scan_network calls so far
    message,        \* last message of main()'s handlers
    faulted,        \* history: tasks that ended in scan_host's handler
    calls,          \* history, per task: the network calls it has issued
    seen,           \* history, per task: what the network answered
    default_timeout \* the socket module's process-wide default timeout

vars == <<pc, entered, hosts, next_submit, work_queue, worker, idle_semaphore,
          tpc, verified, host_info, active_hosts, base, screen, scans,
          message, faulted, calls, seen, default_timeout>>

(***************************************************************************)
(* Bounds of the model and constants of the program.                       *)
(***************************************************************************)
MaxScans == 2       \* scans per session explored
MaxHostBits == 5    \* widest network of the enumeration check: /27

max_workers == 50   \* ThreadPoolExecutor(max_workers=50)
progress_rows == 10 \* table.get_string(end=10)

(***************************************************************************)
(* Text.                                                                   *)
(***************************************************************************)
Digits == <<"0", "1", "2", "3", "4", "5", "6", "7", "8", "9">>

IsDigit(c) == \E d \in 1..10 : Digits[d] = c

DigitVal(c) == (CHOOSE d \in 1..10 : Digits[d] = c) - 1

\* code point of a character, for string comparison
Ord(c) == IF c = "." THEN 46 ELSE IF c = "/" THEN 47 ELSE 48 + DigitVal(c)

RECURSIVE Decimal(_)
\* str(n) of a non-negative integer
Decimal(n) ==
    IF n < 10 THEN <<Digits[n + 1]>>
    ELSE Decimal(n \div 10) \o <<Digits[(n % 10) + 1]>>

RECURSIVE int(_)
\* int(s) of a text of decimal digits
int(s) ==
    IF Len(s) = 0 THEN 0
    ELSE 10 * int(SubSeq(s, 1, Len(s) - 1)) + DigitVal(s[Len(s)])

RECURSIVE split(_, _)
\* s.split(sep)
split(s, sep) ==
    IF \A i \in 1..Len(s) : s[i] # sep THEN <<s>>
    ELSE LET k == CHOOSE i \in 1..Len(s) :
                      s[i] = sep /\ \A j \in 1..(i - 1) : s[j] # sep
         IN <<SubSeq(s, 1, k - 1)>> \o split(SubSeq(s, k + 1, Len(s)), sep)

RECURSIVE join(_, _)
\* sep.join(parts)
join(parts, sep) ==
    IF Len(parts) = 0 THEN <<>>
    ELSE IF Len(parts) = 1 THEN parts[1]
    ELSE parts[1] \o sep \o join(Tail(parts), sep)

\* the text "a.b.c.d..." of a list of numbers
Dotted(fields) == join([i \in 1..Len(fields) |-> Decimal(fields[i])], <<".">>)

(***************************************************************************)
(* ipaddress.ip_network(f'{network_address}/{subnet_mask}', strict=False)  *)
(* and network.hosts().                                                    *)
(***************************************************************************)
RECURSIVE Pow2(_)
Pow2(n) == IF n = 0 THEN 1 ELSE 2 * Pow2(n - 1)

\* an octet check without the upper limit of 255
valid_octet_unlimited(f) ==
    /\ Len(f) >= 1
    /\ Len(f) <= 3
    /\ \A i \in 1..Len(f) : IsDigit(f[i])

\* one dot-separated field of the address is a decimal octet
valid_octet(f) ==
    /\ Len(f) >= 1
    /\ Len(f) <= 3
    /\ \A i \in 1..Len(f) : IsDigit(f[i])
    /\ (Len(f) > 1 => f[1] # "0")
    /\ int(f) <= 255

\* the text after the slash is a prefix length
valid_prefix(m) ==
    /\ Len(m) >= 1
    /\ \A i \in 1..Len(m) : IsDigit(m[i])
    /\ int(m) <= 32

\* ip_network raises no ValueError on address/mask
ip_network_ok(address, mask) ==
    LET f == split(address, ".")
    IN /\ Len(f) = 4
       /\ \A i \in 1..4 : valid_octet(f[i])
       /\ valid_prefix(mask)

\* int(IPv4Address(address)), a 32-bit number kept as its two 16-bit halves
\* <<high, low>>
ip_int(address) ==
    LET f == split(address, ".")
    IN <<int(f[1]) * 256 + int(f[2]), int(f[3]) * 256 + int(f[4])>>

\* IPv4Address(ip + k)
ip_add(ip, k) == <<ip[1] + ((ip[2] + k) \div 65536), (ip[2] + k) % 65536>>

\* int(a) - int(b)
ip_diff(a, b) == (a[1] - b[1]) * 65536 + (a[2] - b[2])

\* strict=False: the host bits of the address are masked off
network_address(ip, prefixlen) ==
    IF prefixlen >= 16
    THEN <<ip[1], ip[2] - (ip[2] % Pow2(32 - prefixlen))>>
    ELSE <<ip[1] - (ip[1] % Pow2(16 - prefixlen)), 0>>

broadcast_address(ip, prefixlen) ==
    ip_add(network_address(ip, prefixlen), Pow2(32 - prefixlen) - 1)

\* list(network): every address of the network
network_all(address, mask) ==
    LET p == int(mask)
        net == network_address(ip_int(address), p)
    IN [i \in 1..Pow2(32 - p) |-> ip_add(net, i - 1)]

\* list(network.hosts()): /31 iterates the whole network, /32 gives the
\* address itself, otherwise range(network + 1, broadcast)
network_hosts(address, mask) ==
    LET p == int(mask)
        net == network_address(ip_int(address), p)
        bc == broadcast_address(ip_int(address), p)
    IN IF p = 32 THEN <<ip_int(address)>>
       ELSE IF p = 31 THEN <<net, ip_add(net, 1)>>
       ELSE [i \in 1..(ip_diff(bc, net) - 1) |-> ip_add(net, i)]

\* str(ip) of an IPv4Address
str_ip(ip) ==
    Dotted(<<ip[1] \div 256, ip[1] % 256, ip[2] \div 256, ip[2] % 256>>)

(***************************************************************************)
(* The network seen by the probes.  A host configuration says which TCP    *)
(* ports accept a connection, whether ping answers, whether the reverse    *)
(* lookup resolves, and how long a verify_host call takes.                 *)
(***************************************************************************)
Dead == [tcp |-> {}, icmp |-> FALSE, ptr |-> FALSE, ms |-> 2500]
Web == [tcp |-> {80}, icmp |-> FALSE, ptr |-> TRUE, ms |-> 0]
Quiet == [tcp |-> {}, icmp |-> TRUE, ptr |-> FALSE, ms |-> 0]

Configs == {Dead, Web, Quiet}

\* the configurations the hosts of a scanned range take; a host that has
\* answered stays as it is until its task ends
Network == {Dead, Web}

\* the ports in ascending order
common_ports_ascending == <<22, 80, 443, 445, 3389>>

common_ports == <<80, 443, 22, 445, 3389>>

verify_ports == <<445, 80, 443>>

\* verify_host: TCP connect to 445, 80, 443, then one ping
verify_host(cfg) ==
    IF \E i \in 1..Len(verify_ports) : verify_ports[i] \in cfg.tcp THEN TRUE
    ELSE cfg.icmp

get_service_name(port) ==
    CASE port = 80 -> "HTTP"
      [] port = 443 -> "HTTPS"
      [] port = 22 -> "SSH"
      [] port = 445 -> "SMB"
      [] port = 3389 -> "RDP"
      [] OTHER -> "Unknown"

RECURSIVE open_ports_from(_, _)
open_ports_from(cfg, ports) ==
    IF Len(ports) = 0 THEN <<>>
    ELSE (IF Head(ports) \in cfg.tcp
          THEN <<<<Head(ports), get_service_name(Head(ports))>>>>
          ELSE <<>>) \o open_ports_from(cfg, Tail(ports))

\* get_open_ports: the entries port(service), in the order of common_ports
get_open_ports(cfg) == open_ports_from(cfg, common_ports)

get_hostname(cfg) == IF cfg.ptr THEN "host.lan" ELSE "Unknown"

\* the dictionary built at lines 98-104; cfg answers the lookups, again the
\* timed second verify_host call, now is the wall clock
make_host_info(ip, cfg, again, now) ==
    [ip |-> str_ip(ip),
     hostname |-> get_hostname(cfg),
     response_time |-> again.ms,
     open_ports |-> IF get_open_ports(cfg) # <<>> THEN get_open_ports(cfg)
                    ELSE <<<<0, "None">>>>,
     last_seen |-> now]

NoInfo ==
    [ip |-> <<>>, hostname |-> "", response_time |-> 0, open_ports |-> <<>>,
     last_seen |-> 0]

(***************************************************************************)
(* The calls a task issues to the network, in the order it issues them.    *)
(***************************************************************************)
\* a loop over the ports that keeps connecting after a port has answered
RECURSIVE tcp_calls_all(_, _)
tcp_calls_all(cfg, ports) ==
    IF Len(ports) = 0 THEN <<>>
    ELSE <<<<"tcp", Head(ports)>>>> \o tcp_calls_all(cfg, Tail(ports))

\* lines 24-33: one connect_ex per port, until a port answers (return True)
RECURSIVE tcp_calls(_, _)
tcp_calls(cfg, ports) ==
    IF Len(ports) = 0 THEN <<>>
    ELSE <<<<"tcp", Head(ports)>>>> \o
         (IF Head(ports) \in cfg.tcp THEN <<>> ELSE tcp_calls(cfg, Tail(ports)))

\* lines 24-42: the connects, and one ping when no port has answered
verify_calls(cfg) ==
    tcp_calls(cfg, verify_ports) \o
    (IF \E i \in 1..Len(verify_ports) : verify_ports[i] \in cfg.tcp THEN <<>>
     ELSE <<<<"icmp", 0>>>>)

\* line 77: socket.gethostbyaddr
hostname_calls == <<<<"dns", 0>>>>

\* lines 49-58: one connect_ex per port of common_ports, none left out
port_calls == [i \in 1..Len(common_ports) |-> <<"tcp", common_ports[i]>>]

\* line 76: socket.setdefaulttimeout(1); <<>> stands for None
setdefaulttimeout(old) == <<1>>

(***************************************************************************)
(* A host as the calls of one verify_host find it: per port what           *)
(* connect_ex does, what the ping subprocess does, what the reverse lookup *)
(* does, how long the call takes (us, in microseconds) and by how much the *)
(* system clock is adjusted while it runs (step, in microseconds).         *)
(***************************************************************************)
\* connect_ex returns 0, ECONNREFUSED or EAGAIN, or the socket call raises
PortStates == {"open", "refused", "timeout", "raises"}

\* ping exits with 0 or 1, or subprocess.run raises TimeoutExpired or OSError
PingStates == {"reply", "silent", "timeout", "error"}

Host(p445, p80, p443, p22, p3389, ping, dns, us, step) ==
    [tcp |-> (445 :> p445) @@ (80 :> p80) @@ (443 :> p443) @@ (22 :> p22)
             @@ (3389 :> p3389),
     ping |-> ping, dns |-> dns, us |-> us, step |-> step]

\* lines 28-33 and 52-58: result == 0; an exception skips the port
tcp_answer(state) == state = "open"

\* an except clause that takes a failure to run ping for an answer
ping_answer_lenient(state) == state \in {"reply", "error", "timeout"}

\* lines 39-42: returncode == 0; an exception gives False
ping_answer(state) == state = "reply"

\* lines 76-80: the name, or "Unknown" on herror, gaierror or timeout
dns_answer(state) == state = "name"

\* lines 94-96: time.time() is the system clock, so the difference of the
\* two readings is the duration of the call plus the adjustment of the clock
clock_difference(us, step) == us + step

\* line 96: int(seconds * 1000), which truncates towards zero
elapsed_ms(us) == IF us >= 0 THEN us \div 1000 ELSE -((-us) \div 1000)

\* the host configuration the probes of one call make of a host
probed(raw) ==
    [tcp |-> {p \in DOMAIN raw.tcp : tcp_answer(raw.tcp[p])},
     icmp |-> ping_answer(raw.ping),
     ptr |-> dns_answer(raw.dns),
     ms |-> elapsed_ms(clock_difference(raw.us, raw.step)),
     raw |-> raw]

RawHosts ==
    {Host("open", "refused", "refused", "refused", "refused", "reply", "name",
          1250, 0),
     Host("refused", "open", "open", "refused", "refused", "silent", "name",
          2900, 0),
     Host("raises", "timeout", "open", "open", "refused", "error", "herror",
          503400, 0),
     Host("timeout", "raises", "refused", "open", "refused", "reply", "name",
          512000, -2000000),
     Host("refused", "refused", "refused", "refused", "refused", "reply",
          "herror", 9000, 0),
     Host("open", "open", "open", "open", "open", "reply", "name", 300, 0),
     Host("refused", "refused", "refused", "refused", "refused", "silent",
          "herror", 30000, 0),
     Host("raises", "raises", "raises", "raises", "raises", "timeout",
          "timeout", 1000999, 0),
     Host("timeout", "timeout", "timeout", "refused", "open", "error", "name",
          1500000, 0),
     Host("timeout", "refused", "raises", "refused", "refused", "silent",
          "name", 520000, 0)}

\* the network of a single task: every call may find any host of RawHosts
ProbeNet == {probed(raw) : raw \in RawHosts}

(***************************************************************************)
(* display_results: sorted(self.active_hosts, key=...) and the table.     *)
(***************************************************************************)
\* the address text itself as key: the order of strings
sort_key_text(x) == [i \in 1..Len(x.ip) |-> Ord(x.ip[i])]

\* key=lambda x: [int(i) for i in x['ip'].split('.')]
sort_key(x) ==
    LET parts == split(x.ip, ".")
    IN [i \in 1..Len(parts) |-> int(parts[i])]

RECURSIVE list_less(_, _)
\* a < b for two Python lists of integers
list_less(a, b) ==
    IF Len(b) = 0 THEN FALSE
    ELSE IF Len(a) = 0 THEN TRUE
    ELSE IF Head(a) # Head(b) THEN Head(a) < Head(b)
    ELSE list_less(Tail(a), Tail(b))

RECURSIVE insert_sorted(_, _)
\* x goes after every element that is not greater than it (a stable sort)
insert_sorted(s, x) ==
    IF Len(s) = 0 THEN <<x>>
    ELSE IF list_less(sort_key(x), sort_key(Head(s))) THEN <<x>> \o s
    ELSE <<Head(s)>> \o insert_sorted(Tail(s), x)

RECURSIVE sorted(_)
sorted(s) ==
    IF Len(s) = 0 THEN <<>>
    ELSE insert_sorted(sorted(SubSeq(s, 1, Len(s) - 1)), s[Len(s)])

\* the rows of the table: all of them, or rows [0:10] of a progress update
table_rows(list, intermediate) ==
    LET rows == sorted(list)
    IN IF intermediate /\ Len(rows) > progress_rows
       THEN SubSeq(rows, 1, progress_rows)
       ELSE rows

(***************************************************************************)
(* The texts typed at the two prompts of main().                           *)
(***************************************************************************)
AddressTexts == {<<>>, Dotted(<<192, 168, 1, 9>>), Dotted(<<999, 1, 1, 1>>)}

MaskTexts == {<<>>, Decimal(30), Decimal(32), Decimal(33)}

Blank == [kind |-> "blank", count |-> 0, total |-> 0, rows |-> <<>>, text |-> ""]

Tasks == 1..Len(hosts)

Workers == 1..Len(worker)

\* a join that only waits for the queue to empty
Drained_queue_only == work_queue = <<>>

\* every pool thread waits on an empty queue
Drained == work_queue = <<>> /\ \A w \in Workers : worker[w] = 0

Init ==
    /\ pc = "prompt"
    /\ entered = [address |-> <<>>, mask |-> <<>>]
    /\ hosts = <<>>
    /\ next_submit = 1
    /\ work_queue = <<>>
    /\ worker = <<>>
    /\ idle_semaphore = 0
    /\ tpc = <<>>
    /\ verified = <<>>
    /\ host_info = <<>>
    /\ active_hosts = <<>>
    /\ base = 0
    /\ screen = Blank
    /\ scans = 0
    /\ message = ""
    /\ faulted = {}
    /\ calls = <<>>
    /\ seen = <<>>
    /\ default_timeout = <<>>

pool_vars ==
    <<work_queue, worker, idle_semaphore, tpc, verified, host_info, faulted,
      calls, seen>>

scan_vars == <<hosts, next_submit, base, scans>>

(***************************************************************************)
(* main(): the interactive loop.                                           *)
(***************************************************************************)
\* lines 225-231: an empty answer to either prompt starts the loop again
PromptEmpty ==
    /\ pc = "prompt"
    /\ \E a \in AddressTexts, m \in MaskTexts :
          /\ a = <<>> \/ m = <<>>
          /\ entered' = [address |-> a, mask |-> IF a = <<>> THEN <<>> ELSE m]
    /\ screen' = Blank
    /\ UNCHANGED <<default_timeout, pc, active_hosts, message, pool_vars,
                   scan_vars>>

\* lines 234, 258-259: ip_network raises ValueError, which main() reports
PromptInvalid ==
    /\ pc = "prompt"
    /\ \E a \in AddressTexts, m \in MaskTexts :
          /\ a # <<>> /\ m # <<>>
          /\ ~ip_network_ok(a, m)
          /\ entered' = [address |-> a, mask |-> m]
    /\ screen' = Blank
    /\ message' = "Invalid input"
    /\ UNCHANGED <<default_timeout, pc, active_hosts, pool_vars, scan_vars>>

\* lines 234-236 and 147-157: the input is valid, scan_network enumerates
\* the hosts and opens the pool
PromptScan ==
    /\ pc = "prompt"
    /\ scans < MaxScans
    /\ \E a \in AddressTexts, m \in MaskTexts :
          /\ a # <<>> /\ m # <<>>
          /\ ip_network_ok(a, m)
          /\ entered' = [address |-> a, mask |-> m]
          /\ hosts' = network_hosts(a, m)
    /\ next_submit' = 1
    /\ work_queue' = <<>>
    /\ worker' = <<>>
    /\ idle_semaphore' = 0
    /\ tpc' = [t \in 1..Len(hosts') |-> "new"]
    /\ verified' = [t \in 1..Len(hosts') |-> "none"]
    /\ host_info' = [t \in 1..Len(hosts') |-> NoInfo]
    /\ faulted' = {}
    /\ base' = Len(active_hosts)
    /\ scans' = scans + 1
    /\ screen' = [Blank EXCEPT !.kind = "initiating", !.total = Len(hosts')]
    /\ pc' = "map"
    /\ calls' = [t \in 1..Len(hosts') |-> <<>>]
    /\ seen' = [t \in 1..Len(hosts') |-> <<>>]
    /\ UNCHANGED <<active_hosts, message, default_timeout>>

\* a pool that never starts a thread
may_spawn_never(threads, width) == FALSE

\* a pool that starts a thread for every work item
may_spawn_always(threads, width) == TRUE

\* ThreadPoolExecutor._adjust_thread_count: a thread is started only while
\* fewer than max_workers exist
may_spawn(threads, width) == threads < width

\* executor.map: one submit() per host; submit() queues the work item and
\* starts a thread unless one is idle or max_workers threads exist
SubmitTo(width) ==
    /\ pc = "map"
    /\ next_submit <= Len(hosts)
    /\ work_queue' = Append(work_queue, next_submit)
    /\ tpc' = [tpc EXCEPT ![next_submit] = "queued"]
    /\ IF idle_semaphore > 0
       THEN idle_semaphore' = idle_semaphore - 1 /\ worker' = worker
       ELSE /\ idle_semaphore' = idle_semaphore
            /\ worker' = IF may_spawn(Len(worker), width)
                         THEN Append(worker, 0) ELSE worker
    /\ next_submit' = next_submit + 1
    /\ UNCHANGED <<calls, seen, default_timeout, pc, entered, hosts,
                   verified, host_info, active_hosts, base,
                   screen, scans, message, faulted>>

\* line 157: ThreadPoolExecutor(max_workers=50)
Submit == SubmitTo(max_workers)

\* the end of the with block: shutdown(wait=True) joins the pool threads
Shutdown ==
    /\ pc = "map"
    /\ next_submit > Len(hosts)
    /\ pc' = "join"
    /\ UNCHANGED <<default_timeout, entered, active_hosts, screen, message,
                   pool_vars, scan_vars>>

\* lines 160-174: the threads are joined; the summary and the final table
Summary ==
    /\ pc = "join"
    /\ Drained
    /\ screen' = [kind |-> "summary",
                  count |-> Len(active_hosts),
                  total |-> Len(hosts),
                  rows |-> IF active_hosts # <<>>
                           THEN table_rows(active_hosts, FALSE) ELSE <<>>,
                  text |-> IF active_hosts # <<>> THEN ""
                           ELSE "No active hosts found on the network."]
    /\ worker' = <<>>
    /\ pc' = "choice"
    /\ UNCHANGED <<calls, seen, default_timeout, entered, active_hosts,
                   message, work_queue, idle_semaphore,
                   tpc, verified, host_info, faulted, scan_vars>>

\* lines 238-239: scan another network
ChoiceYes ==
    /\ pc = "choice"
    /\ pc' = "prompt"
    /\ UNCHANGED <<default_timeout, entered, active_hosts, screen, message,
                   pool_vars, scan_vars>>

\* lines 239-256: any other answer ends the loop
ChoiceNo ==
    /\ pc = "choice"
    /\ pc' = "exit"
    /\ message' = "Thank you for using our Network Scanner!"
    /\ UNCHANGED <<default_timeout, entered, active_hosts, screen, pool_vars,
                   scan_vars>>

(***************************************************************************)
(* KeyboardInterrupt in the main thread.                                   *)
(***************************************************************************)
\* during executor.map: the with block unwinds through shutdown(wait=True)
InterruptMap ==
    /\ pc = "map"
    /\ pc' = "unwind"
    /\ UNCHANGED <<default_timeout, entered, active_hosts, screen, message,
                   pool_vars, scan_vars>>

\* the unwinding join has ended; lines 260-262 report and leave the loop
Unwound ==
    /\ pc = "unwind"
    /\ Drained
    /\ pc' = "exit"
    /\ message' = "Scan interrupted by user."
    /\ UNCHANGED <<default_timeout, entered, active_hosts, screen, pool_vars,
                   scan_vars>>

\* during a join: the join is abandoned, lines 260-262 report and leave the
\* loop; the pool threads keep running and the interpreter waits for them
InterruptJoin ==
    /\ pc \in {"join", "unwind"}
    /\ pc' = "exit"
    /\ message' = "Scan interrupted by user."
    /\ UNCHANGED <<default_timeout, entered, active_hosts, screen, pool_vars,
                   scan_vars>>

\* during input()
InterruptInput ==
    /\ pc \in {"prompt", "choice"}
    /\ pc' = "exit"
    /\ message' = "Scan interrupted by user."
    /\ UNCHANGED <<default_timeout, entered, active_hosts, screen, pool_vars,
                   scan_vars>>

(***************************************************************************)
(* The pool threads: _worker takes a work item and runs scan_host on it.   *)
(***************************************************************************)
\* an append that stores into the slot the previous append has just filled
append_stale_slot(list, info) ==
    IF Len(list) = 0 THEN <<info>> ELSE [list EXCEPT ![Len(list)] = info]

\* an insert at the head of the list
append_front(list, info) == <<info>> \o list

\* line 106: self.active_hosts.append(host_info)
append(list, info) == Append(list, info)

\* a handler that lets the exception out of scan_host
scan_host_reraise == "raised"

\* lines 109-110: except Exception: pass; scan_host returns normally
scan_host_except == "returned"

\* the work item has run: the thread releases the idle semaphore and waits
Release(w) ==
    /\ worker' = [worker EXCEPT ![w] = 0]
    /\ idle_semaphore' = idle_semaphore + 1

\* work_queue.get(block=True)
Get(w) ==
    /\ worker[w] = 0
    /\ work_queue # <<>>
    /\ worker' = [worker EXCEPT ![w] = Head(work_queue)]
    /\ work_queue' = Tail(work_queue)
    /\ tpc' = [tpc EXCEPT ![Head(work_queue)] = "verify"]
    /\ UNCHANGED <<calls, seen, default_timeout, pc, entered, idle_semaphore,
                   verified, host_info,
                   active_hosts, screen, message, faulted, scan_vars>>

\* line 86: the first verify_host call, answered by one of the configurations
\* of net; a host that is not live ends the task
VerifyIn(w, net) ==
    /\ worker[w] # 0
    /\ tpc[worker[w]] = "verify"
    /\ \E cfg \in net :
          /\ calls' = [calls EXCEPT ![worker[w]] = @ \o verify_calls(cfg)]
          /\ seen' = [seen EXCEPT ![worker[w]] = Append(@, cfg)]
          /\ IF verify_host(cfg)
             THEN /\ verified' = [verified EXCEPT ![worker[w]] = "live"]
                  /\ tpc' = [tpc EXCEPT ![worker[w]] = "probe"]
                  /\ UNCHANGED <<worker, idle_semaphore>>
             ELSE /\ verified' = [verified EXCEPT ![worker[w]] = "dead"]
                  /\ tpc' = [tpc EXCEPT ![worker[w]] = "returned"]
                  /\ Release(w)
    /\ UNCHANGED <<pc, entered, work_queue, host_info, active_hosts, screen,
                   message, faulted, scan_vars, default_timeout>>

\* the hosts of the scanned range
Verify(w) == VerifyIn(w, Network)

\* lines 88-104: hostname, open ports, the timed second verify_host call and
\* the host_info dictionary
ProbeIn(w, net) ==
    /\ worker[w] # 0
    /\ tpc[worker[w]] = "probe"
    /\ \E cfg \in net, again \in net :
          /\ host_info' = [host_info EXCEPT ![worker[w]] =
                              make_host_info(hosts[worker[w]], cfg, again, scans)]
          /\ calls' = [calls EXCEPT ![worker[w]] =
                          @ \o hostname_calls \o port_calls \o verify_calls(again)]
          /\ seen' = [seen EXCEPT ![worker[w]] = @ \o <<cfg, again>>]
    /\ default_timeout' = setdefaulttimeout(default_timeout)
    /\ tpc' = [tpc EXCEPT ![worker[w]] = "append"]
    /\ UNCHANGED <<pc, entered, work_queue, worker, idle_semaphore, verified,
                   active_hosts, screen, message, faulted, scan_vars>>

\* in the scanned range a host that has answered stays as it is until its
\* task ends
Probe(w) == ProbeIn(w, {cfg \in Network : verify_host(cfg)})

\* line 106
AppendHost(w) ==
    /\ worker[w] # 0
    /\ tpc[worker[w]] = "append"
    /\ active_hosts' = append(active_hosts, host_info[worker[w]])
    /\ tpc' = [tpc EXCEPT ![worker[w]] = "progress"]
    /\ UNCHANGED <<calls, seen, default_timeout, pc, entered, work_queue,
                   worker, idle_semaphore, verified,
                   host_info, screen, message, faulted, scan_vars>>

\* lines 114-115: display_progress clears the screen and writes the count
DisplayHeader(w) ==
    /\ worker[w] # 0
    /\ tpc[worker[w]] = "progress"
    /\ screen' = [kind |-> "progress", count |-> Len(active_hosts),
                  total |-> Len(hosts), rows |-> <<>>, text |-> ""]
    /\ tpc' = [tpc EXCEPT ![worker[w]] = "table"]
    /\ UNCHANGED <<calls, seen, default_timeout, pc, entered, work_queue,
                   worker, idle_semaphore, verified,
                   host_info, active_hosts, message, faulted, scan_vars>>

\* lines 116-140: display_results(intermediate=True); scan_host returns
DisplayTable(w) ==
    /\ worker[w] # 0
    /\ tpc[worker[w]] = "table"
    /\ screen' = [screen EXCEPT !.rows = table_rows(active_hosts, TRUE)]
    /\ tpc' = [tpc EXCEPT ![worker[w]] = "returned"]
    /\ host_info' = [host_info EXCEPT ![worker[w]] = NoInfo]
    /\ Release(w)
    /\ UNCHANGED <<calls, seen, default_timeout, pc, entered, work_queue,
                   verified, active_hosts, message,
                   faulted, scan_vars>>

\* an exception raised by a step of lines 86-104 reaches the handler
RaiseInProbe(w) ==
    /\ worker[w] # 0
    /\ tpc[worker[w]] \in {"verify", "probe"}
    /\ faulted' = faulted \cup {<<worker[w], "probe">>}
    /\ tpc' = [tpc EXCEPT ![worker[w]] = scan_host_except]
    /\ Release(w)
    /\ UNCHANGED <<calls, seen, default_timeout, pc, entered, work_queue,
                   verified, host_info, active_hosts,
                   screen, message, scan_vars>>

\* an exception raised by display_progress reaches the handler
RaiseInDisplay(w) ==
    /\ worker[w] # 0
    /\ tpc[worker[w]] \in {"progress", "table"}
    /\ faulted' = faulted \cup {<<worker[w], "display">>}
    /\ tpc' = [tpc EXCEPT ![worker[w]] = scan_host_except]
    /\ host_info' = [host_info EXCEPT ![worker[w]] = NoInfo]
    /\ Release(w)
    /\ UNCHANGED <<calls, seen, default_timeout, pc, entered, work_queue,
                   verified, active_hosts, screen,
                   message, scan_vars>>

(***************************************************************************)
(* Specifications.                                                         *)
(***************************************************************************)
Next ==
    \/ PromptEmpty
    \/ PromptInvalid
    \/ PromptScan
    \/ Submit
    \/ Shutdown
    \/ Summary
    \/ ChoiceYes
    \/ ChoiceNo
    \/ InterruptMap
    \/ Unwound
    \/ InterruptJoin
    \/ InterruptInput
    \/ \E w \in Workers : Get(w)
    \/ \E w \in Workers : Verify(w)
    \/ \E w \in Workers : Probe(w)
    \/ \E w \in Workers : AppendHost(w)
    \/ \E w \in Workers : DisplayHeader(w)
    \/ \E w \in Workers : DisplayTable(w)

Spec == Init /\ [][Next]_vars

\* the scanner with exceptions raised inside scan_host
\* the pool threads a scan of the ranges of MaskTexts starts: one per address
MaxThreads == 2

\* the positions of a task that a pool thread has taken
Positions == {"verify", "probe", "append", "progress", "table", "returned"}

\* pool thread w moves on: waiting, it takes the head of the queue (Get);
\* running a task, it takes the task to its next position (Verify, Probe,
\* AppendHost, DisplayHeader or DisplayTable).  It can do so exactly when
\* one of these actions is enabled for w
Advance(w) ==
    /\ w \in Workers
    /\ IF worker[w] = 0
       THEN /\ work_queue # <<>>
            /\ worker' = [worker EXCEPT ![w] = Head(work_queue)]
            /\ tpc' = [tpc EXCEPT ![Head(work_queue)] = "verify"]
       ELSE /\ \E p \in Positions \ {tpc[worker[w]]} :
                  tpc' = [tpc EXCEPT ![worker[w]] = p]
            /\ worker' \in {worker, [worker EXCEPT ![w] = 0]}

\* the join at the end of the with block returns (Summary)
Joined == pc = "join" /\ Drained /\ pc' = "choice"

\* every call returns and every thread is scheduled: a pool thread that can
\* move on does, and so does the main thread inside scan_network; the user
\* at a prompt is under no obligation
Fairness ==
    /\ \A w \in 1..MaxThreads : WF_<<worker, tpc>>(Advance(w))
    /\ WF_vars(Submit)
    /\ WF_vars(Shutdown)
    /\ WF_pc(Joined)
    /\ WF_vars(Unwound)

SpecLive == Init /\ [][Next]_vars /\ Fairness

NextFault ==
    \/ Next
    \/ \E w \in Workers : RaiseInProbe(w)
    \/ \E w \in Workers : RaiseInDisplay(w)

SpecFault == Init /\ [][NextFault]_vars

(***************************************************************************)
(* One scan_host call alone: the scan of a /32 range, from the moment the  *)
(* pool thread has taken the work item, against every host of RawHosts.    *)
(***************************************************************************)
ProbeAddress == Dotted(<<192, 168, 1, 9>>)

\* what an earlier scan of the session may have left in active_hosts
EarlierRecords ==
    {<<>>, <<make_host_info(ip_int(ProbeAddress), Web, Web, 1)>>}

InitProbe ==
    /\ pc = "join"
    /\ entered = [address |-> ProbeAddress, mask |-> Decimal(32)]
    /\ hosts = network_hosts(ProbeAddress, Decimal(32))
    /\ next_submit = 2
    /\ work_queue = <<>>
    /\ worker = <<1>>
    /\ idle_semaphore = 0
    /\ tpc = <<"verify">>
    /\ verified = <<"none">>
    /\ host_info = <<NoInfo>>
    /\ active_hosts \in EarlierRecords
    /\ base = Len(active_hosts)
    /\ screen = [Blank EXCEPT !.kind = "initiating", !.total = 1]
    /\ scans = Len(active_hosts) + 1
    /\ message = ""
    /\ faulted = {}
    /\ calls = <<<<>>>>
    /\ seen = <<<<>>>>
    /\ default_timeout = IF active_hosts = <<>> THEN <<>> ELSE <<1>>

NextProbe ==
    \/ \E w \in Workers : VerifyIn(w, ProbeNet)
    \/ \E w \in Workers : ProbeIn(w, ProbeNet)
    \/ \E w \in Workers : AppendHost(w)
    \/ \E w \in Workers : DisplayHeader(w)
    \/ \E w \in Workers : DisplayTable(w)
    \/ \E w \in Workers : RaiseInProbe(w)
    \/ \E w \in Workers : RaiseInDisplay(w)
    \/ Summary

SpecProbe == InitProbe /\ [][NextProbe]_vars

(***************************************************************************)
(* The pool alone: one scan of a range that has more addresses than the    *)
(* pool has threads, with the pool narrowed to PoolWidth threads.          *)
(***************************************************************************)
PoolWidth == 2

\* the mask typed at the prompt: a range of six addresses
PoolMask == Decimal(29)

\* none of the six hosts answers
PoolNet == {Dead}

InitPool ==
    /\ pc = "map"
    /\ entered = [address |-> ProbeAddress, mask |-> PoolMask]
    /\ hosts = network_hosts(ProbeAddress, PoolMask)
    /\ next_submit = 1
    /\ work_queue = <<>>
    /\ worker = <<>>
    /\ idle_semaphore = 0
    /\ tpc = [t \in 1..Len(hosts) |-> "new"]
    /\ verified = [t \in 1..Len(hosts) |-> "none"]
    /\ host_info = [t \in 1..Len(hosts) |-> NoInfo]
    /\ active_hosts = <<>>
    /\ base = 0
    /\ screen = [Blank EXCEPT !.kind = "initiating", !.total = Len(hosts)]
    /\ scans = 1
    /\ message = ""
    /\ faulted = {}
    /\ calls = [t \in 1..Len(hosts) |-> <<>>]
    /\ seen = [t \in 1..Len(hosts) |-> <<>>]
    /\ default_timeout = <<>>

NextPool ==
    \/ SubmitTo(PoolWidth)
    \/ Shutdown
    \/ Summary
    \/ \E w \in Workers : Get(w)
    \/ \E w \in Workers : VerifyIn(w, PoolNet)

SpecPool == InitPool /\ [][NextPool]_vars

(***************************************************************************)
(* The enumeration alone: ip_network and hosts() applied to one input.     *)
(***************************************************************************)
EnumAddresses ==
    {Dotted(<<a, 168, c, d>>) : a \in {10, 192, 255}, c \in {0, 255},
                                d \in {0, 9, 31, 32, 255}}

EnumMasks == {Decimal(p) : p \in (32 - MaxHostBits)..32}

InitEnum ==
    /\ pc = "prompt"
    /\ entered \in [address : EnumAddresses, mask : EnumMasks]
    /\ hosts = <<>>
    /\ next_submit = 1
    /\ work_queue = <<>>
    /\ worker = <<>>
    /\ idle_semaphore = 0
    /\ tpc = <<>>
    /\ verified = <<>>
    /\ host_info = <<>>
    /\ active_hosts = <<>>
    /\ base = 0
    /\ screen = Blank
    /\ scans = 0
    /\ message = ""
    /\ faulted = {}
    /\ calls = <<>>
    /\ seen = <<>>
    /\ default_timeout = <<>>

\* lines 147-149
Enumerate ==
    /\ pc = "prompt"
    /\ ip_network_ok(entered.address, entered.mask)
    /\ hosts' = network_hosts(entered.address, entered.mask)
    /\ pc' = "enumerated"
    /\ UNCHANGED <<calls, seen, default_timeout, entered, next_submit,
                   work_queue, worker, idle_semaphore,
                   tpc, verified, host_info, active_hosts, base, screen, scans,
                   message, faulted>>

SpecEnum == InitEnum /\ [][Enumerate]_vars

(***************************************************************************)
(* Properties.                                                             *)
(***************************************************************************)
\* number of records of list for the address text a
Count(list, a) == Cardinality({i \in 1..Len(list) : list[i].ip = a})

\* the records appended since the current scan started
Appended == SubSeq(active_hosts, base + 1, Len(active_hosts))

\* the address texts of the current scan's range
ScanIps == {str_ip(hosts[t]) : t \in Tasks}

\* every task that was submitted has run to its end
TasksOver == \A t \in Tasks : tpc[t] \in {"new", "returned", "raised"}

\* the four numbers of a dotted address text
Octets(text) == [i \in 1..4 |-> int(split(text, ".")[i])]

\* a before b as 4-tuples of numbers
TupleLess(a, b) ==
    \E k \in 1..4 : a[k] < b[k] /\ \A j \in 1..(k - 1) : a[j] = b[j]

\* C1: for a scan started on an empty collection, once every submitted task
\* has ended the collection holds exactly one record for each address whose
\* first verification succeeded and no record for any other address.
C1_ExactlyTheLiveHosts ==
    (base = 0 /\ TasksOver) =>
        /\ \A t \in Tasks :
              Count(active_hosts, str_ip(hosts[t])) =
                  IF verified[t] = "live" THEN 1 ELSE 0
        /\ \A i \in 1..Len(active_hosts) : active_hosts[i].ip \in ScanIps

\* C1 witness: two live hosts, both tasks over, the second host's record
\* appended first.
C1_Witness ==
    /\ base = 0
    /\ Len(hosts) = 2
    /\ TasksOver
    /\ \A t \in Tasks : verified[t] = "live"
    /\ Len(active_hosts) = 2
    /\ active_hosts[1].ip = str_ip(hosts[2])

\* C2: in the collection reported at the end of a scan no address appears
\* twice, also when the session has scanned the range before.
C2_NoAddressTwice ==
    pc = "choice" =>
        \A i, j \in 1..Len(active_hosts) :
            i # j => active_hosts[i].ip # active_hosts[j].ip

\* C3: when scan_network starts to dispatch the collection is empty, and the
\* final collection and count hold only records of the scan's own range.
C3_RecordsOfOneScan ==
    /\ (pc = "map" /\ next_submit = 1) => active_hosts = <<>>
    /\ pc = "choice" =>
          /\ \A i \in 1..Len(active_hosts) : active_hosts[i].ip \in ScanIps
          /\ screen.count = Len(Appended)

\* C4: once the interrupt has arrived, a task that is still queued is never
\* started.
C4_NoStartAfterInterrupt ==
    [][(pc \in {"unwind", "exit"}) =>
          (\A t \in Tasks : tpc[t] = "queued" => tpc'[t] = "queued")]_vars

\* the two typed texts are a dotted quad of octets and a prefix length
IsIPv4Network(e) ==
    LET f == split(e.address, ".")
    IN /\ Len(f) = 4
       /\ \A i \in 1..4 : \E n \in 0..255 : f[i] = Decimal(n)
       /\ \E n \in 0..32 : e.mask = Decimal(n)

C6_DisplayDoesNotHoldWorker ==
    \A w \in Workers :
        (/\ worker[w] # 0
         /\ tpc[worker[w]] \in {"progress", "table"}
         /\ work_queue # <<>>) => ENABLED Get(w)

\* the addresses that share the first p bits with ip, for p >= 16
SameNetwork(ip, p) ==
    {<<ip[1], l>> : l \in {x \in (ip[2] - Pow2(32 - p))..(ip[2] + Pow2(32 - p)) :
                             /\ x >= 0
                             /\ x \div Pow2(32 - p) = ip[2] \div Pow2(32 - p)}}

Lowest(S) == CHOOSE x \in S : \A y \in S : x[2] <= y[2]

Highest(S) == CHOOSE x \in S : \A y \in S : x[2] >= y[2]

\* C7: for a prefix length up to 30 the enumerated list is the containing
\* network without its network and broadcast addresses, without repetition,
\* and has 2^(32-p) - 2 entries.
C7_HostEnumeration ==
    (pc = "enumerated" /\ int(entered.mask) <= 30) =>
        LET p == int(entered.mask)
            S == SameNetwork(ip_int(entered.address), p)
        IN /\ {hosts[i] : i \in 1..Len(hosts)} = S \ {Lowest(S), Highest(S)}
           /\ Cardinality({hosts[i] : i \in 1..Len(hosts)}) = Len(hosts)
           /\ Len(hosts) = Pow2(32 - p) - 2

\* C7 witness: 192.168.255.9/27, an address with host bits set, enumerated.
C7_Witness ==
    /\ pc = "enumerated"
    /\ entered = [address |-> Dotted(<<192, 168, 255, 9>>), mask |-> Decimal(27)]
    /\ Len(hosts) = 30

\* C8: in every rendering, of two rows with different addresses the one whose
\* octets are the smaller 4-tuple of numbers comes first.
C8_DisplayOrder ==
    \A i, j \in 1..Len(screen.rows) :
        screen.rows[i].ip # screen.rows[j].ip =>
            (i < j <=> TupleLess(Octets(screen.rows[i].ip),
                                 Octets(screen.rows[j].ip)))

\* C8 witness: 192.168.1.10 was appended before 192.168.1.9 and both are on
\* the screen.
C8_Witness ==
    /\ Len(active_hosts) >= 2
    /\ active_hosts[1].ip = Dotted(<<192, 168, 1, 10>>)
    /\ active_hosts[2].ip = Dotted(<<192, 168, 1, 9>>)
    /\ Len(screen.rows) = Len(active_hosts)

\* C9: a scan in which every address failed verification ends with an empty
\* collection and the summary "No active hosts found", without a table.
C9_NoActiveHostsReported ==
    (pc = "choice" /\ \A t \in Tasks : verified[t] = "dead") =>
        /\ active_hosts = <<>>
        /\ screen.rows = <<>>
        /\ screen.text = "No active hosts found on the network."

\* the tasks that raised before the append
Abandoned == {t \in Tasks : <<t, "probe">> \in faulted}

\* C10: a task that raised while probing leaves no record and ends inside
\* scan_host; once the tasks are over every other address has its record
\* exactly when its verification succeeded.
C10_FailureIsolation ==
    /\ \A t \in Tasks : tpc[t] # "raised"
    /\ \A t \in Abandoned :
          tpc[t] = "returned" /\ Count(Appended, str_ip(hosts[t])) = 0
    /\ TasksOver =>
          \A t \in Tasks \ Abandoned :
              Count(Appended, str_ip(hosts[t])) =
                  IF verified[t] = "live" THEN 1 ELSE 0

\* C10 witness: the first host's task raised after a successful verification,
\* the second host's record is in the collection.
C10_Witness ==
    /\ Len(hosts) = 2
    /\ TasksOver
    /\ Abandoned = {1}
    /\ verified[1] = "live"
    /\ verified[2] = "live"
    /\ Len(Appended) = 1
    /\ Appended[1].ip = str_ip(hosts[2])

(***************************************************************************)
(* verify_host: the order of the probes.                                   *)
(***************************************************************************)
VerifyOrder == <<445, 80, 443>>

\* the position in VerifyOrder of the first port that connects, 0 for none
FirstOpen(raw) ==
    IF \A i \in 1..3 : raw.tcp[VerifyOrder[i]] # "open" THEN 0
    ELSE CHOOSE i \in 1..3 :
            /\ raw.tcp[VerifyOrder[i]] = "open"
            /\ \A j \in 1..(i - 1) : raw.tcp[VerifyOrder[j]] # "open"

\* the probes of one call: the ports up to the first that connects, and a
\* single ping after three failures
ExpectedCalls(raw) ==
    IF FirstOpen(raw) > 0
    THEN [i \in 1..FirstOpen(raw) |-> <<"tcp", VerifyOrder[i]>>]
    ELSE [i \in 1..3 |-> <<"tcp", VerifyOrder[i]>>] \o <<<<"icmp", 0>>>>

ExpectedLive(raw) == FirstOpen(raw) > 0 \/ raw.ping = "reply"

\* C11: a verify_host call probes 445, 80, 443 in this order and stops at
\* the first port that connects; it pings exactly once, and only after the
\* three ports have failed, and is then true iff the ping succeeded.  This
\* holds of the first call of a task and of its timed second call.
C11_FallbackOrder ==
    \A t \in Tasks :
       /\ Len(seen[t]) >= 1 =>
             /\ (verified[t] = "live") = ExpectedLive(seen[t][1].raw)
             /\ Len(seen[t]) = 1 => calls[t] = ExpectedCalls(seen[t][1].raw)
       /\ Len(seen[t]) = 3 =>
             calls[t] = ExpectedCalls(seen[t][1].raw)
                        \o <<<<"dns", 0>>, <<"tcp", 80>>, <<"tcp", 443>>,
                              <<"tcp", 22>>, <<"tcp", 445>>, <<"tcp", 3389>>>>
                        \o ExpectedCalls(seen[t][3].raw)

\* a host whose three ports time out, raise and refuse, and that answers
\* the ping
C11_Witness ==
    /\ Len(seen[1]) = 1
    /\ seen[1][1].raw.tcp[445] = "timeout"
    /\ seen[1][1].raw.tcp[80] = "raises"
    /\ seen[1][1].raw.tcp[443] = "refused"
    /\ seen[1][1].raw.ping = "reply"
    /\ verified[1] = "live"
    /\ calls[1] = <<<<"tcp", 445>>, <<"tcp", 80>>, <<"tcp", 443>>, <<"icmp", 0>>>>

(***************************************************************************)
(* scan_host on a host that is not live.                                   *)
(***************************************************************************)
\* the first verification of task t has found no port and no ping reply
NotLive(t) == Len(seen[t]) >= 1 /\ ~ExpectedLive(seen[t][1].raw)

\* C12: once the first verification of an address has returned false the
\* task has ended: its only calls are those of that verification (no
\* lookup, no port scan, no second verification), it has built no record,
\* and the step that ends it and every later step leave active_hosts as it
\* was and show no progress table.
C12_DeadHostNoTrace ==
    [][\A t \in Tasks :
          NotLive(t)' =>
             /\ tpc'[t] = "returned"
             /\ calls'[t] = ExpectedCalls(seen'[t][1].raw)
             /\ Len(seen'[t]) = 1
             /\ host_info'[t] = NoInfo
             /\ active_hosts' = active_hosts
             /\ screen'.kind # "progress"
             /\ ~NotLive(t) => screen' = screen]_vars

\* a host with three filtered ports and no ping, found dead while the
\* collection holds a record of an earlier scan
C12_Witness ==
    /\ NotLive(1)
    /\ seen[1][1].raw.tcp[3389] = "open"
    /\ tpc[1] = "returned"
    /\ active_hosts # <<>>
    /\ pc = "choice"

(***************************************************************************)
(* scan_network: dispatch and completion.                                  *)
(***************************************************************************)
\* the work items that exist for task t: queued, running or finished
Items(t) ==
    Cardinality({i \in 1..Len(work_queue) : work_queue[i] = t})
    + Cardinality({w \in Workers : worker[w] = t})
    + (IF tpc[t] = "returned" THEN 1 ELSE 0)

\* C13: every enumerated address is submitted once (an address not yet
\* reached by executor.map has no work item, a submitted one has exactly
\* one), and while the summary is on the screen every address has been
\* submitted, every task has finished, and the counts shown are those of
\* the collection: nothing is appended after they were read.
C13_DispatchAndCompletion ==
    /\ \A t \in Tasks : Items(t) = IF t < next_submit THEN 1 ELSE 0
    /\ screen.kind = "summary" =>
          /\ next_submit = Len(hosts) + 1
          /\ \A t \in Tasks : tpc[t] = "returned"
          /\ screen.count = Len(active_hosts)
          /\ screen.total = Len(hosts)

\* the summary of a scan of two addresses, both live
C13_Witness ==
    /\ screen.kind = "summary"
    /\ Len(hosts) = 2
    /\ Len(Appended) = 2
    /\ screen.count = Len(active_hosts)

(***************************************************************************)
(* The width of the pool.                                                  *)
(***************************************************************************)
\* the tasks that a pool thread is executing
Executing == {t \in Tasks : tpc[t] \notin {"new", "queued", "returned", "raised"}}

\* C14: at most as many tasks execute at the same time as the pool is
\* wide, however many addresses were submitted; each executing task has a
\* pool thread of its own, and a submitted address that no thread has
\* taken waits in the queue.
C14_BoundedConcurrency ==
    /\ Cardinality(Executing) <= PoolWidth
    /\ Len(worker) <= PoolWidth
    /\ \A t \in Executing : \E w \in Workers : worker[w] = t
    /\ \A v, w \in Workers : (v # w /\ worker[v] # 0) => worker[v] # worker[w]
    /\ \A t \in Tasks :
          tpc[t] = "queued" <=> \E i \in 1..Len(work_queue) : work_queue[i] = t

\* every thread of the pool is executing a task while submitted addresses
\* wait in the queue
C14_Witness ==
    /\ Cardinality(Executing) = PoolWidth
    /\ Len(work_queue) >= 2
    /\ next_submit > Len(hosts)
    /\ Len(hosts) > PoolWidth

(***************************************************************************)
(* The collection grows by appending and is otherwise left alone.          *)
(***************************************************************************)
\* the five fields of a record are set
Complete(r) ==
    /\ r.ip # <<>>
    /\ r.hostname # ""
    /\ r.response_time >= 0
    /\ r.open_ports # <<>>
    /\ r.last_seen >= 1

\* C15: every step leaves the records of active_hosts as they are and where
\* they are; it adds at most one record, at the end, with its five fields
\* set.  A step that writes the screen does not change active_hosts, and
\* every row it writes is a complete record.
C15_AppendOnly ==
    [][/\ Len(active_hosts') \in {Len(active_hosts), Len(active_hosts) + 1}
       /\ SubSeq(active_hosts', 1, Len(active_hosts)) = active_hosts
       /\ \A i \in 1..Len(active_hosts') : Complete(active_hosts'[i])
       /\ \A i \in 1..Len(screen'.rows) : Complete(screen'.rows[i])
       /\ (screen' # screen) => (active_hosts' = active_hosts)]_vars

\* two records appended against the order of their addresses: the table
\* shows them sorted, the collection keeps them as appended
C15_Witness ==
    /\ Len(Appended) = 2
    /\ Appended[1].ip = str_ip(hosts[2])
    /\ Appended[2].ip = str_ip(hosts[1])
    /\ screen.kind = "progress"
    /\ Len(screen.rows) >= 2
    /\ screen.rows[1].ip = str_ip(hosts[1])

(***************************************************************************)
(* Termination.                                                            *)
(***************************************************************************)
\* C16: under fair scheduling the submitted tasks all come to their end,
\* and a scan that has started reaches its summary unless the user
\* interrupts it.
C16_Termination ==
    /\ (~TasksOver) ~> TasksOver
    /\ (pc = "map") ~> ((pc = "choice" /\ screen.kind = "summary") \/ pc = "exit")

\* the summary of a scan of a live and a dead host
C16_Witness ==
    /\ pc = "choice"
    /\ screen.kind = "summary"
    /\ Len(hosts) = 2
    /\ verified = <<"live", "dead">>
    /\ TasksOver

(***************************************************************************)
(* What a task writes besides the collection.                              *)
(***************************************************************************)
\* a step of scan_host before the progress display: a verification, the
\* lookups with the timing, or the append
ProbingStep ==
    \E w \in Workers :
       /\ worker[w] # 0
       /\ tpc[worker[w]] \in {"verify", "probe", "append"}
       /\ tpc'[worker[w]] # tpc[worker[w]]

\* C17: a step of a task before its progress display writes nothing that
\* other threads can read except active_hosts: the socket module's default
\* timeout, the console and the variables of the main thread stay as they
\* are.
C17_OnlyTheCollectionIsShared ==
    [][ProbingStep =>
          /\ default_timeout' = default_timeout
          /\ screen' = screen
          /\ UNCHANGED <<pc, entered, message, hosts, next_submit, scans>>]_vars

(***************************************************************************)
(* get_open_ports: the order of the result.                                *)
(***************************************************************************)
PortOrder == <<80, 443, 22, 445, 3389>>

ServiceOf ==
    (80 :> "HTTP") @@ (443 :> "HTTPS") @@ (22 :> "SSH") @@ (445 :> "SMB")
    @@ (3389 :> "RDP")

IsOpen(state) == state = "open"

\* the ports of PortOrder that connect, in the order of PortOrder
ExpectedPorts(raw) ==
    LET open == SelectSeq([i \in 1..5 |-> <<PortOrder[i], raw.tcp[PortOrder[i]]>>],
                          LAMBDA e : IsOpen(e[2]))
    IN [i \in 1..Len(open) |-> <<open[i][1], ServiceOf[open[i][1]]>>]

\* C18: the port scan of a task connects once to each of 80, 443, 22, 445,
\* 3389 in this order, and its result, which depends on nothing but which
\* ports connect, lists exactly the ports that connected in this order,
\* each with its service name; the record holds this list, or None.
C18_PortOrder ==
    \A t \in Tasks :
       tpc[t] = "append" =>
          LET found == seen[t][2]
              n == Len(ExpectedCalls(seen[t][1].raw))
          IN /\ get_open_ports(found) = ExpectedPorts(found.raw)
             /\ host_info[t].open_ports =
                   IF ExpectedPorts(found.raw) = <<>> THEN <<<<0, "None">>>>
                   ELSE ExpectedPorts(found.raw)
             /\ SubSeq(calls[t], n + 2, n + 6) =
                   [i \in 1..5 |-> <<"tcp", PortOrder[i]>>]
             /\ Len(calls[t]) = n + 6 + Len(ExpectedCalls(seen[t][3].raw))

\* a host whose port 445 raises and whose port 80 times out: the list is
\* 443, 22
C18_Witness ==
    /\ tpc[1] = "append"
    /\ seen[1][2].raw.tcp[445] = "raises"
    /\ seen[1][2].raw.tcp[80] = "timeout"
    /\ host_info[1].open_ports = <<<<443, "HTTPS">>, <<22, "SSH">>>>

(***************************************************************************)
(* What decides the record, and its response time.                         *)
(***************************************************************************)
\* the records of the current scan that carry the address of task t
RecordsOf(t) == {i \in 1..Len(Appended) : Appended[i].ip = str_ip(hosts[t])}

\* a task that has ended has appended one record if its first verification
\* succeeded and nothing raised before the append, and none otherwise,
\* whatever its second verification found
RecordIffFirstVerification ==
    \A t \in Tasks :
       tpc[t] = "returned" =>
          /\ Cardinality(RecordsOf(t)) <= 1
          /\ RecordsOf(t) # {} <=>
                /\ Len(seen[t]) >= 1
                /\ ExpectedLive(seen[t][1].raw)
                /\ <<t, "probe">> \notin faulted

\* the response time of a record is the duration of the task's second
\* verification in whole milliseconds, and is not negative
ResponseTimeIsDuration ==
    \A t \in Tasks :
       tpc[t] = "returned" =>
          \A i \in RecordsOf(t) :
             /\ Appended[i].response_time = seen[t][3].raw.us \div 1000
             /\ Appended[i].response_time >= 0

\* C19: the first verification alone decides whether a record is appended;
\* the second one only times: the record's response time is its duration,
\* a non-negative number of milliseconds.
C19_RecordFromFirstVerification ==
    RecordIffFirstVerification /\ ResponseTimeIsDuration

(***************************************************************************)
(* A progress display that raises.                                         *)
(***************************************************************************)
\* the tasks whose progress display raised
DisplayFailed == {t \in Tasks : <<t, "display">> \in faulted}

\* C20: a task whose progress display raised has ended inside scan_host
\* like any other task, and the record it had appended is in the collection
\* once; the other tasks are not affected: once all tasks are over, each
\* live address that did not itself raise while probing has its record.
C20_DisplayFailureKeepsRecord ==
    /\ \A t \in DisplayFailed :
          /\ tpc[t] = "returned"
          /\ Cardinality(RecordsOf(t)) = 1
    /\ (DisplayFailed # {} /\ TasksOver) =>
          \A u \in Tasks :
             (verified[u] = "live" /\ u \notin Abandoned)
                => Cardinality(RecordsOf(u)) = 1

\* the display of the first of two live hosts raised; the scan has reached
\* its summary with both records
C20_Witness ==
    /\ DisplayFailed = {1}
    /\ Len(hosts) = 2
    /\ pc = "choice"
    /\ screen.kind = "summary"
    /\ Cardinality(RecordsOf(1)) = 1
    /\ Cardinality(RecordsOf(2)) = 1

====
